---------------------------- MODULE Spec2Model ----------------------------
(***************************************************************************)
(* Model of msvc-tmpfile-posix-delete: wmain and                           *)
(* CreateTmpFileWithPosixDelete (main.cpp, carried in src/README.md from   *)
(* line 142 on) together with the part of the NT file system the program   *)
(* drives (README, lines 10-33; NtSetInformationFile.h).                   *)
(*                                                                         *)
(* One temporary file and at most two NT file objects on it: the one of    *)
(* the FILE* ("stream") and the one ReOpenFile creates ("reopened").       *)
(* Each OS call of the program is one action, so that a system crash can   *)
(* fall between any two of them.                                           *)
(***************************************************************************)
EXTENDS Integers, Sequences, FiniteSets

(* ------------------------------ bounds --------------------------------- *)

\* tmpfile_s picks one of NumNames unique file names.
NumNames == 2
\* errno / GetLastError values range over 0..MaxErrno.
MaxErrno == 2
\* NTSTATUS values range over -MaxStatus..MaxStatus.
MaxStatus == 1

Names == 1..NumNames
Errnos == 0..MaxErrno
Statuses == (0 - MaxStatus)..MaxStatus

(* ------------------------ NtSetInformationFile.h ----------------------- *)

FILE_DISPOSITION_DELETE == 1
FILE_DISPOSITION_POSIX_SEMANTICS == 2

\* _Return_type_success_(return >= 0) LONG NTSTATUS
NT_SUCCESS(status) == status >= 0

(* ------------------------------ the OS --------------------------------- *)

TempDir == "%TEMP%"
DeletedDir == "$Extend\\$Deleted"

FileObjects == {"stream", "reopened"}

NoFile == [loc |-> "none", name |-> 0, content |-> << >>, pending |-> FALSE]
NoFileObject == [state |-> "none", deleteOnClose |-> FALSE, flags |-> 0,
                 access |-> {}, share |-> {}]
NoPath == [dir |-> "", name |-> 0]
NoError == [api |-> "none", code |-> 0]

VARIABLES
    argv,               \* wmain's argument vector
    shouldPosixDelete,  \* wmain's flag
    pc,                 \* position of the program
    tmpFile,            \* the FILE*: "none", "null" or "open"
    tempFileHandle,     \* the FILE*'s OS HANDLE: "none" or "valid"
    reopened,           \* wil::unique_hfile: "none", "invalid" or "valid"
    originalPath,       \* CreateTmpFileWithPosixDelete's local
    paths,              \* the TmpFilePaths wmain received
    returned,           \* whether CreateTmpFileWithPosixDelete returned a result
    exc,                \* the exception in flight or caught
    trace,              \* the OS calls made so far, oldest first
    closes,             \* number of CloseHandle calls made on the reopened handle
    logged,             \* whether the failure was handed to LogFailureToStderr
    exitCode,           \* "none", "0" or "nonzero"
    proc,               \* "running", "exited", "failfast" or "killed"
    sys,                \* "up", "crashed" or "remounted"
    file,               \* the temporary file on the volume
    fobj                \* the NT file objects on it

vars == <<argv, shouldPosixDelete, pc, tmpFile, tempFileHandle, reopened,
          originalPath, paths, returned, exc, trace, closes, logged,
          exitCode, proc, sys, file, fobj>>


Running == proc = "running" /\ sys = "up"

(* ----------------------- the NT file system ---------------------------- *)

\* Whether the bit (a power of two) is set in the ULONG flags.
HasFlag(flags, bit) == (flags \div bit) % 2 = 1

\* A file object marked for deletion with POSIX semantics.
PosixDeleteSet(o) ==
    /\ HasFlag(o.flags, FILE_DISPOSITION_DELETE)
    /\ HasFlag(o.flags, FILE_DISPOSITION_POSIX_SEMANTICS)

\* Whether a file object other than k is open on the file.
OthersOpen(fo, k) == \E j \in FileObjects \ {k} : fo[j].state = "open"

\* The file after file object k of fo is closed.  A file object carrying the
\* POSIX delete disposition moves the file to $Extend\$Deleted when it
\* closes; the file is fully deleted when no other file object is open on
\* it.  FILE_FLAG_DELETE_ON_CLOSE deletes the file when all handles to it
\* are closed.
FileAfterClose(f, fo, k) ==
    IF f.loc \notin {"orig", "deleted"} \/ fo[k].state # "open" THEN f
    ELSE LET pend == f.pending \/ fo[k].deleteOnClose
             last == ~OthersOpen(fo, k)
         IN  IF last /\ (PosixDeleteSet(fo[k]) \/ pend \/ f.loc = "deleted")
                THEN [f EXCEPT !.loc = "gone", !.pending = pend]
             ELSE IF PosixDeleteSet(fo[k])
                THEN [f EXCEPT !.loc = "deleted", !.pending = pend]
             ELSE [f EXCEPT !.pending = pend]

\* The file objects after file object k is closed.
CloseHandle(fo, k) ==
    IF fo[k].state = "open" THEN [fo EXCEPT ![k].state = "closed"] ELSE fo

\* Process termination: the kernel closes every handle the process has open.
FileAfterTermination(f, fo) ==
    FileAfterClose(FileAfterClose(f, fo, "reopened"),
                   CloseHandle(fo, "reopened"), "stream")

FileObjectsAfterTermination(fo) ==
    CloseHandle(CloseHandle(fo, "reopened"), "stream")

\* A system crash: file objects vanish without being closed.
FileObjectsAfterCrash(fo) ==
    [k \in FileObjects |->
        IF fo[k].state = "open" THEN [fo[k] EXCEPT !.state = "lost"] ELSE fo[k]]

\* Mounting the volume deletes what is left over in $Extend\$Deleted.
FileAfterMount(f) ==
    IF f.loc = "deleted" THEN [f EXCEPT !.loc = "gone"] ELSE f

\* Mutant: the file is opened without FILE_FLAG_DELETE_ON_CLOSE.
StreamFileObjectNoDeleteOnClose ==
    [state |-> "open", deleteOnClose |-> FALSE, flags |-> 0,
     access |-> {"GENERIC_READ", "GENERIC_WRITE"},
     share |-> {"FILE_SHARE_DELETE", "FILE_SHARE_READ", "FILE_SHARE_WRITE"}]

\* The file object tmpfile_s opens: created with FILE_FLAG_DELETE_ON_CLOSE.
StreamFileObject ==
    [state |-> "open", deleteOnClose |-> TRUE, flags |-> 0,
     access |-> {"GENERIC_READ", "GENERIC_WRITE"},
     share |-> {"FILE_SHARE_DELETE", "FILE_SHARE_READ", "FILE_SHARE_WRITE"}]

\* ReOpenFile(tempFileHandle, DELETE,
\*            FILE_SHARE_DELETE | FILE_SHARE_READ | FILE_SHARE_WRITE, 0)
ReOpenFile ==
    [state |-> "open", deleteOnClose |-> FALSE, flags |-> 0,
     access |-> {"DELETE"},
     share |-> {"FILE_SHARE_DELETE", "FILE_SHARE_READ", "FILE_SHARE_WRITE"}]

\* Mutant: FILE_DISPOSITION_POSIX_SEMANTICS is left out of disp.Flags.
DispFlagsDeleteOnly == FILE_DISPOSITION_DELETE

\* disp.Flags: the two bits are distinct, so | is +.
DispFlags == FILE_DISPOSITION_DELETE + FILE_DISPOSITION_POSIX_SEMANTICS

\* NtSetInformationFile(h, .., &disp, .., FileDispositionInformationEx)
\* returning status: the flags are set only when the call succeeds.
NtSetInformationFile(fo, k, flags, status) ==
    IF NT_SUCCESS(status) THEN [fo EXCEPT ![k].flags = flags] ELSE fo

\* GetFilePath: the file's final path name, where the file is now.
GetFilePath(f) ==
    [dir |-> IF f.loc = "deleted" THEN DeletedDir ELSE TempDir, name |-> f.name]

\* The names a directory listing of dir shows.
Listing(dir) ==
    IF (dir = TempDir /\ file.loc = "orig") \/ (dir = DeletedDir /\ file.loc = "deleted")
        THEN {file.name} ELSE {}

(* ------------------------------ helpers -------------------------------- *)

\* ErrnoToHresult: MAKE_HRESULT(1, FACILITY_CUSTOMER_CRT, (uint16_t)err) as a
\* signed 32-bit HRESULT.  FACILITY_CUSTOMER_CRT is a uint16_t, so the
\* initialiser (1 << 16) | 0x1898 is truncated to 16 bits.
FACILITY_CUSTOMER_CRT == ((1 * 65536) + 6296) % 65536

ErrnoToHresult(err) ==
    (0 - 1073741824) * 2 + FACILITY_CUSTOMER_CRT * 65536 + (err % 65536)

\* Mutant: the handle is never closed (a raw HANDLE that is forgotten).
HfileNeverOwns(r) == FALSE

\* Mutant: reset() leaves the wrapper holding the closed handle, so every
\* later release closes again.
HfileAlwaysOwns(r) == r # "none"

\* wil::unique_hfile: reset() and the destructor close the handle when
\* the wrapper holds a valid one, and leave the wrapper invalid.
HfileOwnsHandle(r) == r = "valid"

\* Mutant: every status other than STATUS_SUCCESS is taken for a failure.
NtstatusFailedNonZero(status) == status # 0

\* Mutant: the status NtSetInformationFile returns is not looked at.
NtstatusFailedNever(status) == FALSE

\* THROW_IF_NTSTATUS_FAILED: the status is a failure when negative.
NtstatusFailed(status) == status < 0

\* Mutant: the POSIX delete is done whatever the flag says.
TakesPosixBranchAlways == TRUE

\* if (shouldPosixDelete)
TakesPosixBranch == shouldPosixDelete

\* Mutant: tempFileHandle itself (or a duplicate of it) is used, which is
\* a handle to the FILE*'s own file object.
ReopenedTargetStream == "stream"

\* The file object the handle held by reopened refers to: ReOpenFile makes
\* a second file object, it does not hand back the FILE*'s.
ReopenedTarget == "reopened"

Step(name, ok) == [step |-> name, ok |-> ok]

(* --------------------------- initial state ----------------------------- *)

Argvs == { <<"exe">>, <<"exe", "skip">>, <<"exe", "other">>,
           <<"exe", "skip", "other">>, <<"exe", "other", "skip">> }

Init ==
    /\ argv \in Argvs
    /\ shouldPosixDelete = FALSE
    /\ pc = "wmain"
    /\ tmpFile = "none"
    /\ tempFileHandle = "none"
    /\ reopened = "none"
    /\ originalPath = NoPath
    /\ paths = [original |-> NoPath, current |-> NoPath]
    /\ returned = FALSE
    /\ exc = NoError
    /\ trace = << >>
    /\ closes = 0
    /\ logged = FALSE
    /\ exitCode = "none"
    /\ proc = "running"
    /\ sys = "up"
    /\ file = NoFile
    /\ fobj = [k \in FileObjects |-> NoFileObject]

(* ------------------- CreateTmpFileWithPosixDelete ---------------------- *)

\* A THROW_* macro: the exception leaves CreateTmpFileWithPosixDelete.
\* Inside the if block the unique_hfile is in scope and is destroyed first.
Throw(api, code) ==
    /\ exc' = [api |-> api, code |-> code]
    /\ pc' = IF reopened = "none" THEN "catch" ELSE "unwind"

\* reopened.reset() and ~unique_hfile: close the handle if one is held.
\* tr is the trace up to the call.
ReleaseReopened(tr) ==
    IF HfileOwnsHandle(reopened)
        THEN /\ closes' = closes + 1
             /\ file' = FileAfterClose(file, fobj, ReopenedTarget)
             /\ fobj' = CloseHandle(fobj, ReopenedTarget)
             /\ reopened' = "invalid"
             /\ trace' = Append(tr, Step("CloseHandle", TRUE))
        ELSE /\ UNCHANGED <<closes, file, fobj>>
             /\ reopened' = IF reopened = "none" THEN "none" ELSE "invalid"
             /\ trace' = tr

\* Mutant: "skip" is looked for in the last argument, not in argv[1].
ShouldPosixDeleteLastArg(av) == ~(Len(av) > 1 /\ av[Len(av)] = "skip")

\* wmain's lambda: false when argc > 1 and argv[1] is "skip", true
\* otherwise.  av[1] is the program name, av[2] is argv[1].
ShouldPosixDelete(av) == ~(Len(av) > 1 /\ av[2] = "skip")

\* wmain: const bool shouldPosixDelete = [&]() {...}();
ParseArgs ==
    /\ Running /\ pc = "wmain"
    /\ shouldPosixDelete' = ShouldPosixDelete(argv)
    /\ pc' = "tmpfile_s"
    /\ UNCHANGED <<argv, tmpFile, tempFileHandle, reopened, originalPath, paths,
                   returned, exc, trace, closes, logged, exitCode, proc, sys,
                   file, fobj>>

\* errno_t err = tmpfile_s(&tmpFile); the two THROW_HR_IF that follow.
TmpFile ==
    /\ Running /\ pc = "tmpfile_s"
    /\ \E err \in Errnos, name \in Names, null \in BOOLEAN :
        IF err # 0
            THEN /\ Throw("tmpfile_s", ErrnoToHresult(err))
                 /\ trace' = Append(trace, Step("tmpfile_s", FALSE))
                 /\ UNCHANGED <<tmpFile, file, fobj>>
        ELSE IF null
            THEN \* E_UNEXPECTED
                 /\ Throw("tmpfile_s", 0 - 2147418113)
                 /\ trace' = Append(trace, Step("tmpfile_s", FALSE))
                 /\ tmpFile' = "null"
                 /\ UNCHANGED <<file, fobj>>
        ELSE /\ tmpFile' = "open"
             /\ file' = [loc |-> "orig", name |-> name, content |-> << >>,
                         pending |-> FALSE]
             /\ fobj' = [fobj EXCEPT !["stream"] = StreamFileObject]
             /\ trace' = Append(trace, Step("tmpfile_s", TRUE))
             /\ pc' = "_fileno"
             /\ UNCHANGED exc
    /\ UNCHANGED <<argv, shouldPosixDelete, tempFileHandle, reopened,
                   originalPath, paths, returned, closes, logged, exitCode,
                   proc, sys>>

\* int fd = _fileno(tmpFile);
FileNo ==
    /\ Running /\ pc = "_fileno"
    /\ \E fdOk \in BOOLEAN, errno \in Errnos :
        IF fdOk
            THEN pc' = "_get_osfhandle" /\ UNCHANGED exc
            ELSE Throw("_fileno", ErrnoToHresult(errno))
    /\ UNCHANGED <<argv, shouldPosixDelete, tmpFile, tempFileHandle, reopened,
                   originalPath, paths, returned, trace, closes, logged,
                   exitCode, proc, sys, file, fobj>>

\* HANDLE tempFileHandle = reinterpret_cast<HANDLE>(_get_osfhandle(fd));
GetOsfHandle ==
    /\ Running /\ pc = "_get_osfhandle"
    /\ \E hOk \in BOOLEAN, errno \in Errnos :
        IF hOk
            THEN /\ tempFileHandle' = "valid"
                 /\ pc' = "GetFilePath"
                 /\ UNCHANGED exc
            ELSE /\ Throw("_get_osfhandle", ErrnoToHresult(errno))
                 /\ UNCHANGED tempFileHandle
    /\ UNCHANGED <<argv, shouldPosixDelete, tmpFile, reopened, originalPath,
                   paths, returned, trace, closes, logged, exitCode, proc, sys,
                   file, fobj>>

\* Mutant: a failure to resolve the path is not thrown; the function goes
\* on with an empty original path.
GetOriginalPathIgnoresFailure ==
    /\ Running /\ pc = "GetFilePath"
    /\ \E ok \in BOOLEAN :
        /\ originalPath' = IF ok THEN GetFilePath(file) ELSE NoPath
        /\ trace' = Append(trace, Step("GetFilePath", ok))
    /\ pc' = "if"
    /\ UNCHANGED <<argv, shouldPosixDelete, tmpFile, tempFileHandle, reopened,
                   paths, returned, exc, closes, logged, exitCode, proc, sys,
                   file, fobj>>

\* std::wstring originalPath = GetFilePath(tempFileHandle);
GetOriginalPath ==
    /\ Running /\ pc = "GetFilePath"
    /\ \E ok \in BOOLEAN, e \in Errnos \ {0} :
        /\ IF ok
              THEN /\ originalPath' = GetFilePath(file)
                   /\ pc' = "if"
                   /\ UNCHANGED exc
              ELSE /\ Throw("GetFilePath", e)
                   /\ UNCHANGED originalPath
        /\ trace' = Append(trace, Step("GetFilePath", ok))
    /\ UNCHANGED <<argv, shouldPosixDelete, tmpFile, tempFileHandle, reopened,
                   paths, returned, closes, logged, exitCode, proc, sys, file,
                   fobj>>

\* else branch: return TmpFilePaths{ originalPath, originalPath }.
ReturnOriginal ==
    /\ Running /\ pc = "if" /\ ~TakesPosixBranch
    /\ paths' = [original |-> originalPath, current |-> originalPath]
    /\ returned' = TRUE
    /\ pc' = "wprintf"
    /\ UNCHANGED <<argv, shouldPosixDelete, tmpFile, tempFileHandle, reopened,
                   originalPath, exc, trace, closes, logged, exitCode, proc,
                   sys, file, fobj>>

\* wil::unique_hfile reopened{ ReOpenFile(...) }; THROW_LAST_ERROR_IF.
ReOpen ==
    /\ Running /\ pc = "if" /\ TakesPosixBranch
    /\ \E ok \in BOOLEAN, e \in Errnos \ {0} :
        /\ IF ok
              THEN /\ fobj' = [fobj EXCEPT ![ReopenedTarget] = ReOpenFile]
                   /\ reopened' = "valid"
                   /\ pc' = "NtSetInformationFile"
                   /\ UNCHANGED exc
              ELSE /\ reopened' = "invalid"
                   /\ exc' = [api |-> "ReOpenFile", code |-> e]
                   /\ pc' = "unwind"
                   /\ UNCHANGED fobj
        /\ trace' = Append(trace, Step("ReOpenFile", ok))
    /\ UNCHANGED <<argv, shouldPosixDelete, tmpFile, tempFileHandle,
                   originalPath, paths, returned, closes, logged, exitCode,
                   proc, sys, file>>

\* THROW_IF_NTSTATUS_FAILED(NtSetInformationFile(reopened.get(), ...)).
SetDisposition ==
    /\ Running /\ pc = "NtSetInformationFile"
    /\ \E status \in Statuses :
        /\ fobj' = NtSetInformationFile(fobj, ReopenedTarget, DispFlags, status)
        /\ trace' = Append(trace, Step("NtSetInformationFile", ~NtstatusFailed(status)))
        /\ IF NtstatusFailed(status)
              THEN Throw("NtSetInformationFile", status)
              ELSE pc' = "reset" /\ UNCHANGED exc
    /\ UNCHANGED <<argv, shouldPosixDelete, tmpFile, tempFileHandle, reopened,
                   originalPath, paths, returned, closes, logged, exitCode,
                   proc, sys, file>>

\* reopened.reset();
ResetReopened ==
    /\ Running /\ pc = "reset"
    /\ ReleaseReopened(trace)
    /\ pc' = "return"
    /\ UNCHANGED <<argv, shouldPosixDelete, tmpFile, tempFileHandle,
                   originalPath, paths, returned, exc, logged, exitCode, proc,
                   sys>>

\* return TmpFilePaths{ originalPath, GetFilePath(tempFileHandle) };
\* on the way out reopened is destroyed.
ReturnCurrent ==
    /\ Running /\ pc = "return"
    /\ \E ok \in BOOLEAN, e \in Errnos \ {0} :
        IF ok
            THEN /\ paths' = [original |-> originalPath,
                              current |-> GetFilePath(file)]
                 /\ returned' = TRUE
                 /\ pc' = "wprintf"
                 /\ ReleaseReopened(Append(trace, Step("GetFilePath", TRUE)))
                 /\ UNCHANGED exc
            ELSE /\ Throw("GetFilePath", e)
                 /\ trace' = Append(trace, Step("GetFilePath", FALSE))
                 /\ UNCHANGED <<paths, returned, closes, file, fobj, reopened>>
    /\ UNCHANGED <<argv, shouldPosixDelete, tmpFile, tempFileHandle,
                   originalPath, logged, exitCode, proc, sys>>

\* Stack unwinding out of the if block: ~unique_hfile.
Unwind ==
    /\ Running /\ pc = "unwind"
    /\ ReleaseReopened(trace)
    /\ pc' = "catch"
    /\ UNCHANGED <<argv, shouldPosixDelete, tmpFile, tempFileHandle,
                   originalPath, paths, returned, exc, logged, exitCode, proc,
                   sys>>

(* ------------------------------- wmain --------------------------------- *)

\* The kernel's process termination cleanup closes the process's handles.
Terminate(how, code) ==
    /\ proc' = how
    /\ exitCode' = code
    /\ file' = FileAfterTermination(file, fobj)
    /\ fobj' = FileObjectsAfterTermination(fobj)
    /\ pc' = "done"

\* The two wprintf calls and fflush(stdout).
PrintPaths ==
    /\ Running /\ pc = "wprintf"
    /\ pc' = "PAUSE"
    /\ UNCHANGED <<argv, shouldPosixDelete, tmpFile, tempFileHandle, reopened,
                   originalPath, paths, returned, exc, trace, closes, logged,
                   exitCode, proc, sys, file, fobj>>

\* system("PAUSE"); fwprintf(stderr, ...); return 0;
PauseAndReturn ==
    /\ Running /\ pc = "PAUSE"
    /\ Terminate("exited", "0")
    /\ UNCHANGED <<argv, shouldPosixDelete, tmpFile, tempFileHandle, reopened,
                   originalPath, paths, returned, exc, trace, closes, logged,
                   sys>>

\* The exit code of wmain when control flows off the end of its handler:
\* the compiler supplies a return value of zero for main and wmain.
ExitCodeAfterCatch == "0"

\* CATCH_LOG(): LogFailureToStderr writes the failure, or fails fast when it
\* cannot; the handler then flows off the end of wmain.
CatchLog ==
    /\ Running /\ pc = "catch"
    /\ \E written \in BOOLEAN :
        IF written
            THEN Terminate("exited", ExitCodeAfterCatch)
            ELSE Terminate("failfast", "nonzero")
    /\ logged' = TRUE
    /\ UNCHANGED <<argv, shouldPosixDelete, tmpFile, tempFileHandle, reopened,
                   originalPath, paths, returned, exc, trace, closes, sys>>

(* --------------------------- the environment --------------------------- *)

\* The system crashes (or shuts down around a session 0 process): nothing
\* is closed.
Crash ==
    /\ sys = "up"
    /\ sys' = "crashed"
    /\ proc' = IF proc = "running" THEN "killed" ELSE proc
    /\ fobj' = FileObjectsAfterCrash(fobj)
    /\ UNCHANGED <<argv, shouldPosixDelete, pc, tmpFile, tempFileHandle,
                   reopened, originalPath, paths, returned, exc, trace, closes,
                   logged, exitCode, file>>

\* The volume is mounted at the next boot.
Mount ==
    /\ sys = "crashed"
    /\ sys' = "remounted"
    /\ file' = FileAfterMount(file)
    /\ UNCHANGED <<argv, shouldPosixDelete, pc, tmpFile, tempFileHandle,
                   reopened, originalPath, paths, returned, exc, trace, closes,
                   logged, exitCode, proc, fobj>>

Next ==
    \/ ParseArgs
    \/ TmpFile
    \/ FileNo
    \/ GetOsfHandle
    \/ GetOriginalPath
    \/ ReturnOriginal
    \/ ReOpen
    \/ SetDisposition
    \/ ResetReopened
    \/ ReturnCurrent
    \/ Unwind
    \/ PrintPaths
    \/ PauseAndReturn
    \/ CatchLog
    \/ Crash
    \/ Mount

Spec == Init /\ [][Next]_vars

TypeOK ==
    /\ argv \in Argvs
    /\ shouldPosixDelete \in BOOLEAN
    /\ tmpFile \in {"none", "null", "open"}
    /\ tempFileHandle \in {"none", "valid"}
    /\ reopened \in {"none", "invalid", "valid"}
    /\ returned \in BOOLEAN
    /\ closes \in Nat
    /\ logged \in BOOLEAN
    /\ exitCode \in {"none", "0", "nonzero"}
    /\ proc \in {"running", "exited", "failfast", "killed"}
    /\ sys \in {"up", "crashed", "remounted"}
    /\ file.loc \in {"none", "orig", "deleted", "gone"}
    /\ \A k \in FileObjects : fobj[k].state \in {"none", "open", "closed", "lost"}

(* ------------------------------ properties ----------------------------- *)

\* The OS call name was made with outcome ok.
Did(name, ok) == \E i \in DOMAIN trace : trace[i] = Step(name, ok)

\* Step 4 is complete: the disposition call succeeded and the second handle
\* was closed after it.
Step4Done ==
    /\ shouldPosixDelete
    /\ Did("NtSetInformationFile", TRUE)
    /\ Did("CloseHandle", TRUE)

\* The file objects the process holds open on the file.
OpenHandles == {k \in FileObjects : fobj[k].state = "open"}

\* The file is listed in the temporary directory under its original name.
ListedAtOriginalPath == file.loc # "none" /\ file.name \in Listing(TempDir)

\* Control is back in wmain, with a result or with an exception.
BackInWmain == Running /\ pc \in {"wprintf", "PAUSE", "catch"}

C2_EnabledResult ==
    (returned /\ shouldPosixDelete) =>
        /\ paths.current # paths.original
        /\ paths.original.dir = TempDir
        /\ paths.current.dir = DeletedDir
        /\ ~ListedAtOriginalPath

C2_Witness == returned /\ shouldPosixDelete /\ Running /\ file.loc = "deleted"

\* C3: when CreateTmpFileWithPosixDelete returns a result in a skip run, the
\* current path equals the original path, ReOpenFile and
\* NtSetInformationFile were never called, there is no second file object,
\* the stream's file object carries no disposition flags, and the file is
\* listed at its original path while the stream's handle is open.
C3_SkipResult ==
    (returned /\ ~shouldPosixDelete) =>
        /\ paths.current = paths.original
        /\ \A ok \in BOOLEAN : ~Did("ReOpenFile", ok)
        /\ \A ok \in BOOLEAN : ~Did("NtSetInformationFile", ok)
        /\ closes = 0
        /\ reopened = "none"
        /\ fobj["reopened"] = NoFileObject
        /\ fobj["stream"].flags = 0
        /\ fobj["stream"].deleteOnClose
        /\ fobj["stream"].state = "open" => ListedAtOriginalPath

C3_Witness ==
    /\ returned /\ ~shouldPosixDelete
    /\ fobj["stream"].state = "open"
    /\ ListedAtOriginalPath

\* C4: the second handle is never closed more than once; when control is
\* back in wmain, by result or by exception, it has been closed exactly once
\* if ReOpenFile succeeded (and never if it did not), and the only file
\* object the process holds open on the file is the stream's.
C4_SecondHandleClosedOnce ==
    /\ closes <= 1
    /\ BackInWmain =>
          /\ closes = IF Did("ReOpenFile", TRUE) THEN 1 ELSE 0
          /\ reopened # "valid"
          /\ OpenHandles = IF tmpFile = "open" THEN {"stream"} ELSE {}

C4_Witness ==
    /\ BackInWmain /\ pc = "catch"
    /\ Did("NtSetInformationFile", FALSE)
    /\ closes = 1
    /\ OpenHandles = {"stream"}

\* C5: when ReOpenFile or NtSetInformationFile fails, an exception reaches
\* wmain without a result, the second handle is not open, and the file is as
\* created: at its original path, no disposition flags on either file
\* object, the stream's file object open and still delete-on-close.
C5_FailureLeavesCreated ==
    (BackInWmain /\ (Did("ReOpenFile", FALSE) \/ Did("NtSetInformationFile", FALSE))) =>
        /\ pc = "catch"
        /\ exc.api \in {"ReOpenFile", "NtSetInformationFile"}
        /\ ~returned
        /\ reopened = "invalid"
        /\ fobj["reopened"].state \in {"none", "closed"}
        /\ \A k \in FileObjects : fobj[k].flags = 0
        /\ file.loc = "orig" /\ ~file.pending
        /\ ListedAtOriginalPath
        /\ tmpFile = "open" /\ tempFileHandle = "valid"
        /\ fobj["stream"].state = "open"
        /\ fobj["stream"].deleteOnClose

C5_Witness ==
    /\ BackInWmain
    /\ exc.api = "NtSetInformationFile"
    /\ fobj["reopened"].state = "closed"
    /\ file.loc = "orig"

\* C6: from the creation of the file and for as long as the process runs,
\* the stream's file object is open, the file exists (at its original path
\* or in $Extend\$Deleted) and its content is what it was at creation.
C6_StreamStaysOpen ==
    (Running /\ tmpFile = "open") =>
        /\ fobj["stream"].state = "open"
        /\ fobj["stream"].access = StreamFileObject.access
        /\ file.loc \in {"orig", "deleted"}
        /\ file.content = << >>

C6_Witness ==
    /\ Running /\ tmpFile = "open" /\ pc = "PAUSE"
    /\ shouldPosixDelete
    /\ file.loc = "deleted"
    /\ fobj["stream"].state = "open"

\* The steps of an enabled run, in the order of the code.
StepOrder ==
    << "tmpfile_s", "GetFilePath", "ReOpenFile", "NtSetInformationFile",
       "CloseHandle", "GetFilePath" >>

\* The calls made so far are the first calls of StepOrder, in that order.
InStepOrder ==
    /\ Len(trace) <= Len(StepOrder)
    /\ \A i \in DOMAIN trace : trace[i].step = StepOrder[i]

\* C7 as stated: in an enabled run the calls are made in the fixed order,
\* each at most once, and no call is made unless every earlier call
\* succeeded.
C7_Original ==
    shouldPosixDelete =>
        /\ InStepOrder
        /\ \A i \in DOMAIN trace : \A j \in 1..(i - 1) : trace[j].ok

\* C7: in an enabled run the calls are made in the fixed order, each at
\* most once, and no call is made unless every earlier call succeeded,
\* except that the second handle is closed right after a failed
\* NtSetInformationFile too (and nothing is called after that).
C7_Amended ==
    shouldPosixDelete =>
        /\ InStepOrder
        /\ \A i \in DOMAIN trace : \A j \in 1..(i - 1) :
              \/ trace[j].ok
              \/ /\ trace[j].step = "NtSetInformationFile"
                 /\ trace[i].step = "CloseHandle"
                 /\ i = j + 1
                 /\ i = Len(trace)

C7_Witness ==
    /\ shouldPosixDelete
    /\ Len(trace) = Len(StepOrder)
    /\ \A i \in DOMAIN trace : trace[i].ok
    /\ returned

\* C8: in a skip run, a system crash that loses the stream's handle leaves
\* the file listed at its original path, and mounting the volume again does
\* not remove it.
C8_SkipCrashLeavesFile ==
    (~shouldPosixDelete /\ fobj["stream"].state = "lost") =>
        /\ sys \in {"crashed", "remounted"}
        /\ file.loc = "orig"
        /\ ListedAtOriginalPath

C8_Witness ==
    /\ ~shouldPosixDelete /\ returned
    /\ fobj["stream"].state = "lost"
    /\ sys = "remounted"
    /\ ListedAtOriginalPath

\* C9: once the process has terminated (wmain returned or the process
\* failed fast) the file is fully deleted: it is listed neither at its
\* original path nor in $Extend\$Deleted, and no file object is open.
C9_OrderlyEndDeletes ==
    proc \in {"exited", "failfast"} =>
        /\ file.loc \in {"none", "gone"}
        /\ Listing(TempDir) = {} /\ Listing(DeletedDir) = {}
        /\ OpenHandles = {}

C9_Witness ==
    /\ proc = "exited" /\ returned /\ shouldPosixDelete
    /\ file.loc = "gone"
    /\ Did("CloseHandle", TRUE)

\* C10 as stated: the exit code is 0 when the run succeeds and non-zero when
\* a failure reached wmain's handler, and every such failure was logged.
C10_ExitCode ==
    proc \in {"exited", "failfast"} =>
        /\ exc = NoError => exitCode = "0"
        /\ exc # NoError => (exitCode = "nonzero" /\ logged)

\* Some call of the OS function name was made, whatever its outcome.
Called(name) == \E ok \in BOOLEAN : Did(name, ok)

\* The argument vectors whose first argument is "skip".
SkipArgvs == { <<"exe", "skip">>, <<"exe", "skip", "other">> }

\* C11: once the arguments are parsed, the protocol is disabled exactly when
\* the first argument is "skip"; steps 2-4 are reached only in the other
\* runs, and a run that returns a result has reopened the file exactly when
\* its first argument is not "skip".
C11_SkipArgument ==
    pc # "wmain" =>
        /\ shouldPosixDelete <=> argv \notin SkipArgvs
        /\ (Called("ReOpenFile") \/ Called("NtSetInformationFile") \/ closes > 0)
              => argv \notin SkipArgvs
        /\ returned => (Did("ReOpenFile", TRUE) <=> argv \notin SkipArgvs)

C11_Witness ==
    /\ argv = <<"exe", "other", "skip">>
    /\ returned
    /\ Did("ReOpenFile", TRUE)
    /\ file.loc = "deleted"

\* The DispositionSet state: the disposition call succeeded and the second
\* file object is still open.
DispositionSet ==
    Did("NtSetInformationFile", TRUE) /\ fobj["reopened"].state = "open"

\* C12: in the DispositionSet state the second file object carries the
\* POSIX delete disposition and the file is still listed at its original
\* path; the file moves from its original path to $Extend\$Deleted only in a
\* step that closes the second file object, and every step that closes it
\* with the disposition set takes the file away from its original path.
C12_RelocationAtClose ==
    /\ [](DispositionSet =>
            /\ PosixDeleteSet(fobj["reopened"])
            /\ file.loc = "orig"
            /\ ListedAtOriginalPath)
    /\ [][(file.loc = "orig" /\ file'.loc = "deleted") =>
            (fobj["reopened"].state = "open" /\ fobj'["reopened"].state = "closed")]_vars
    /\ [][(DispositionSet /\ fobj'["reopened"].state = "closed") =>
            file'.loc \in {"deleted", "gone"}]_vars

C12_Witness ==
    /\ DispositionSet /\ Running /\ pc = "reset"
    /\ PosixDeleteSet(fobj["reopened"])
    /\ ListedAtOriginalPath

\* C13 as stated: as soon as the disposition call has succeeded the file is
\* unreachable at its original path, whatever handles are open.
C13_Original ==
    (Running /\ Did("NtSetInformationFile", TRUE)) => ~ListedAtOriginalPath

\* C13: once the disposition call has succeeded and reopened.reset() has
\* run, the file is unreachable at its original path (it is in
\* $Extend\$Deleted) even though the stream's file object is still open.
C13_Amended ==
    (Running /\ Did("NtSetInformationFile", TRUE) /\ pc # "reset") =>
        /\ ~ListedAtOriginalPath
        /\ file.loc = "deleted"
        /\ fobj["stream"].state = "open"
        /\ fobj["reopened"].state = "closed"

C13_Witness ==
    /\ Running /\ pc = "return"
    /\ Did("NtSetInformationFile", TRUE)
    /\ file.loc = "deleted"
    /\ OpenHandles = {"stream"}

\* C14: the stream's file object never carries disposition flags; flags are
\* only ever on the second file object, after a successful
\* NtSetInformationFile; and the second file object is opened with DELETE
\* access only and a share mode of delete, read and write.
C14_DispositionOnSecondHandle ==
    /\ fobj["stream"].flags = 0
    /\ ~PosixDeleteSet(fobj["stream"])
    /\ \A k \in FileObjects :
          fobj[k].flags # 0 =>
              /\ k = "reopened"
              /\ Did("NtSetInformationFile", TRUE)
              /\ fobj[k].flags = DispFlags
    /\ fobj["reopened"].state # "none" =>
          /\ Did("ReOpenFile", TRUE)
          /\ fobj["reopened"].access = {"DELETE"}
          /\ fobj["reopened"].share =
                {"FILE_SHARE_DELETE", "FILE_SHARE_READ", "FILE_SHARE_WRITE"}
    /\ fobj["stream"].state # "none" => fobj["stream"].deleteOnClose

C14_Witness ==
    /\ PosixDeleteSet(fobj["reopened"])
    /\ fobj["reopened"].state = "open"
    /\ fobj["stream"].state = "open"
    /\ fobj["stream"].flags = 0

\* The system crashed under the running program: the stream's file object
\* was open and was never closed.
CrashedWithStreamOpen ==
    sys \in {"crashed", "remounted"} /\ fobj["stream"].state = "lost"

\* C15 as stated: a crash of an enabled run leaves the file at its original
\* path exactly when it falls after the creation of the file and before the
\* second handle is closed.
C15_Original ==
    (shouldPosixDelete /\ CrashedWithStreamOpen) =>
        (ListedAtOriginalPath <=> closes = 0)

\* C15: a crash of an enabled run leaves the file at its original path
\* exactly when it falls after the creation of the file and before step 4 is
\* complete, that is before the second handle is closed after a successful
\* disposition call; the close made by the cleanup after a failed
\* disposition call does not end that interval.
C15_Amended ==
    (shouldPosixDelete /\ CrashedWithStreamOpen) =>
        /\ ListedAtOriginalPath <=> ~Step4Done
        /\ closes = 0 => ListedAtOriginalPath

C15_Witness ==
    /\ shouldPosixDelete /\ CrashedWithStreamOpen
    /\ pc = "reset"
    /\ PosixDeleteSet(fobj["reopened"])
    /\ ListedAtOriginalPath

\* C16: a result is returned only when no exception was thrown, every call
\* made succeeded, both paths were resolved and (in an enabled run) the
\* disposition is really set on the second file object; a thrown exception
\* means no result and the end of the function; a failed call is the one the
\* exception names, and nothing but the cleanup close follows it, so no
\* failed call is made again.
C16_NoResultAfterFailure ==
    /\ returned =>
          /\ exc = NoError
          /\ \A i \in DOMAIN trace : trace[i].ok
          /\ paths.original # NoPath /\ paths.current # NoPath
          /\ shouldPosixDelete =>
                (Did("ReOpenFile", TRUE) /\ PosixDeleteSet(fobj["reopened"]))
    /\ exc # NoError =>
          /\ ~returned
          /\ paths = [original |-> NoPath, current |-> NoPath]
          /\ pc \in {"unwind", "catch", "done"}
    /\ \A i \in DOMAIN trace :
          ~trace[i].ok =>
              /\ exc.api = trace[i].step
              /\ \A j \in DOMAIN trace : j > i => trace[j].step = "CloseHandle"

C16_Witness ==
    /\ pc = "catch" /\ Running
    /\ exc.api = "GetFilePath"
    /\ Did("CloseHandle", TRUE)
    /\ ~returned

\* C17: once the file has left its original path it never comes back to it,
\* and when the resolution of the current path fails after a successful
\* disposition call the function ends with an exception and no result while
\* the file is already away from its original path.
C17_RelocationIrreversible ==
    /\ [][file.loc \in {"deleted", "gone"} =>
            file'.loc \in {"deleted", "gone"}]_vars
    /\ []((exc.api = "GetFilePath" /\ Did("NtSetInformationFile", TRUE)) =>
            /\ ~returned
            /\ file.loc \in {"deleted", "gone"}
            /\ ~ListedAtOriginalPath)

C17_Witness ==
    /\ pc = "catch" /\ Running
    /\ exc.api = "GetFilePath"
    /\ Step4Done
    /\ file.loc = "deleted"
    /\ ~ListedAtOriginalPath

\* Step 1 failed after the file was created: _fileno, _get_osfhandle or the
\* resolution of the original path failed.
Step1FailedAfterCreation ==
    /\ tmpFile = "open"
    /\ \/ exc.api \in {"_fileno", "_get_osfhandle"}
       \/ (Len(trace) >= 2 /\ trace[2] = Step("GetFilePath", FALSE))

\* C18: when step 1 fails after the file was created, the function ends
\* with an exception before steps 2-4: ReOpenFile and NtSetInformationFile
\* are never called, there is no second file object, and while the process
\* runs the stream's file object is open and the file is as created, at its
\* original path with delete-on-close only.
C18_Step1FailureAborts ==
    Step1FailedAfterCreation =>
        /\ pc \in {"catch", "done"}
        /\ ~returned
        /\ exc # NoError
        /\ ~Called("ReOpenFile") /\ ~Called("NtSetInformationFile")
        /\ closes = 0
        /\ reopened = "none"
        /\ fobj["reopened"] = NoFileObject
        /\ fobj["stream"].flags = 0 /\ fobj["stream"].deleteOnClose
        /\ Running =>
              /\ pc = "catch"
              /\ fobj["stream"].state = "open"
              /\ file.loc = "orig" /\ ~file.pending
              /\ ListedAtOriginalPath

C18_Witness ==
    /\ Step1FailedAfterCreation /\ Running
    /\ exc.api = "GetFilePath"
    /\ fobj["stream"].state = "open"
    /\ ListedAtOriginalPath

\* The 32-bit HRESULT hr, held as a signed number, without its sign bit.
HresultLow31(hr) == IF hr < 0 THEN (hr + 2147483647) + 1 ELSE hr

\* Whether bit n (0..31) of the 32-bit HRESULT hr is set.
HresultBit(hr, n) ==
    IF n = 31 THEN hr < 0 ELSE (HresultLow31(hr) \div (2 ^ n)) % 2 = 1

\* The calls whose failure is thrown as ErrnoToHresult(errno).
ErrnoApis == {"tmpfile_s", "_fileno", "_get_osfhandle"}

\* C19 as stated: the HRESULT thrown for an errno value err has the severity
\* bit (31) set, the customer bit (29) set, and err modulo 2^16 in its low 16
\* bits.
C19_ErrnoToHresult ==
    \A err \in Errnos :
        (exc.api \in ErrnoApis /\ exc.code = ErrnoToHresult(err)) =>
            /\ HresultBit(exc.code, 31)
            /\ HresultBit(exc.code, 29)
            /\ HresultLow31(exc.code) % 65536 = err % 65536

=============================================================================
